---------------------------- MODULE Spec2Model ----------------------------
(***************************************************************************)
(* Model of acme/agents/jax/dqn/agent.py: the DQNConfig dataclass, the     *)
(* primary constructor DQNFromConfig.__init__, the legacy constructor      *)
(* DQN.__init__ and the epsilon-greedy policy closure.                     *)
(*                                                                         *)
(* Python ints are TLA+ integers.  Python floats are exact rationals       *)
(* <<numerator, denominator>> in lowest terms with a positive denominator; *)
(* np.inf is <<1, 0>>.  Every float the model draws and every quotient it  *)
(* forms is a small dyadic or decimal value, far inside the range where    *)
(* the quotient batch_size / samples_per_insert is representable.          *)
(***************************************************************************)
EXTENDS Integers, FiniteSets, Sequences, TLC

VARIABLES
  config,      \* the DQNConfig object (the caller's, or the legacy constructor's)
  config0,     \* history: the field values DQNConfig was constructed with
  kwargs,      \* history: the keywords of the DQNConfig(...) or DQN(...) call
  args,        \* history: environment_spec and network of the caller's last call
  via,         \* "none", "config" (caller holds config) or "legacy"
  call,        \* history: what DQNFromConfig.__init__ received and allocated
  agent,       \* result of the last constructor call
  nReplay,     \* replay groups created so far
  nLearner,    \* learners created so far
  nActor,      \* actors created so far
  nCalls,      \* constructor calls so far
  nAssign,     \* caller assignments to fields of config so far
  lastPolicy   \* the last call of the policy closure

vars == <<config, config0, kwargs, args, via, call, agent, nReplay, nLearner,
          nActor, nCalls, nAssign, lastPolicy>>

---------------------------------------------------------------------------
(* Bounds of the model. *)

\* What the caller may do with one configuration record: keywords supplied
\* at its construction, plus later assignments to its fields, plus
\* constructor calls after the first that receive it.
MaxInputs == 2
\* batch_size ranges over 1..MaxBatch and the two values of the examples.
MaxBatch == 2
\* Number of discrete actions of the environment.
NumActions == 2
\* Random keys: key k draws the uniform number k / NumKeys.
NumKeys == 2

---------------------------------------------------------------------------
(* Rational arithmetic for Python floats. *)

Abs(x) == IF x < 0 THEN -x ELSE x

RECURSIVE GCD(_, _)
GCD(a, b) == IF b = 0 THEN a ELSE GCD(b, a % b)

Norm(q) ==
  LET g == GCD(Abs(q[1]), Abs(q[2]))
      s == IF q[2] < 0 THEN -1 ELSE 1
  IN  IF g = 0 THEN q ELSE <<s * (q[1] \div g), s * (q[2] \div g)>>

Rat(n) == <<n, 1>>
RAdd(p, q) == Norm(<<p[1] * q[2] + q[1] * p[2], p[2] * q[2]>>)
RMul(p, q) == Norm(<<p[1] * q[1], p[2] * q[2]>>)
RLess(p, q) == p[1] * q[2] < q[1] * p[2]
Inf == <<1, 0>>

---------------------------------------------------------------------------
(* DQNConfig: the fields and their defaults. *)

Fields ==
  {"epsilon", "samples_per_insert", "seed", "learning_rate", "discount",
   "n_step", "target_update_period", "max_gradient_norm", "batch_size",
   "min_replay_size", "max_replay_size", "importance_sampling_exponent",
   "priority_exponent", "prefetch_size"}

ConfigDefault ==
  [epsilon |-> <<1, 20>>,
   samples_per_insert |-> <<1, 2>>,
   seed |-> 1,
   learning_rate |-> <<1, 1000>>,
   discount |-> <<99, 100>>,
   n_step |-> 5,
   target_update_period |-> 100,
   max_gradient_norm |-> Inf,
   batch_size |-> 256,
   min_replay_size |-> 1000,
   max_replay_size |-> 1000000,
   importance_sampling_exponent |-> <<1, 5>>,
   priority_exponent |-> <<3, 5>>,
   prefetch_size |-> 4]

\* DQNConfig(**kw): the generated __init__ of the dataclass.
DQNConfig(kw) ==
  [f \in Fields |-> IF f \in DOMAIN kw THEN kw[f] ELSE ConfigDefault[f]]

\* The values the model draws for each field (the default among them).
Values(f) ==
  CASE f = "epsilon" -> {<<0, 1>>, <<1, 20>>, <<1, 1>>}
    [] f = "samples_per_insert" -> {<<0, 1>>, <<1, 2>>, <<2, 1>>}
    [] f = "seed" -> {1, 2}
    [] f = "learning_rate" -> {<<1, 1000>>, <<1, 100>>}
    [] f = "discount" -> {<<99, 100>>, <<9, 10>>}
    [] f = "n_step" -> {5, 1}
    [] f = "target_update_period" -> {100, 10}
    [] f = "max_gradient_norm" -> {Inf, <<10, 1>>}
    [] f = "batch_size" -> (1..MaxBatch) \cup {32, 256}
    [] f = "min_replay_size" -> {32, 1000}
    [] f = "max_replay_size" -> {1000000, 5000}
    [] f = "importance_sampling_exponent" -> {<<1, 5>>, <<2, 5>>}
    [] f = "priority_exponent" -> {<<3, 5>>, <<0, 1>>}
    [] f = "prefetch_size" -> {4, 1}

NoKwargs == [f \in {} |-> 0]

\* All keyword dictionaries over the given names with at most k entries.
RECURSIVE KwargsUpTo(_, _)
KwargsUpTo(names, k) ==
  IF k = 0 THEN {NoKwargs}
  ELSE LET K == KwargsUpTo(names, k - 1)
       IN  K \cup UNION {UNION {{kw @@ (f :> v) : v \in Values(f)}
                                  : f \in names \ DOMAIN kw} : kw \in K}


---------------------------------------------------------------------------
(* The objects DQNFromConfig.__init__ wires together. *)

\* The (environment_spec, network) pairs a caller passes.
Setups ==
  {<<[observations |-> "obs_a", actions |-> "act_a"], "net_a">>,
   <<[observations |-> "obs_b", actions |-> "act_b"], "net_b">>}

Handle(id, part) == [kind |-> "replay", id |-> id, part |-> part]
LearnerRef(id) == [kind |-> "learner", id |-> id, part |-> "self"]
NetworkRef(network) == [kind |-> "network", id |-> 0, part |-> network]
ConfigRef == [kind |-> "config", id |-> 0, part |-> "config"]

\* Variant: prefetch_size is handed to the replay construction.
MakeReplayWithPrefetch(id, environment_spec, cfg) ==
  [id |-> id,
   environment_spec |-> environment_spec,
   n_step |-> cfg.n_step,
   batch_size |-> cfg.batch_size,
   prefetch_size |-> cfg.prefetch_size,
   max_replay_size |-> cfg.max_replay_size,
   min_replay_size |-> cfg.min_replay_size,
   priority_exponent |-> cfg.priority_exponent,
   discount |-> cfg.discount,
   server |-> Handle(id, "server"),
   client |-> Handle(id, "client"),
   data_iterator |-> Handle(id, "data_iterator"),
   adder |-> Handle(id, "adder")]

\* replay.make_reverb_prioritized_nstep_replay(...): one replay group.
MakeReplay(id, environment_spec, cfg) ==
  [id |-> id,
   environment_spec |-> environment_spec,
   n_step |-> cfg.n_step,
   batch_size |-> cfg.batch_size,
   max_replay_size |-> cfg.max_replay_size,
   min_replay_size |-> cfg.min_replay_size,
   priority_exponent |-> cfg.priority_exponent,
   discount |-> cfg.discount,
   server |-> Handle(id, "server"),
   client |-> Handle(id, "client"),
   data_iterator |-> Handle(id, "data_iterator"),
   adder |-> Handle(id, "adder")]

\* optax.chain(clip_by_global_norm(max_gradient_norm), adam(learning_rate)).
MakeOptimizer(cfg) ==
  [clip_by_global_norm |-> cfg.max_gradient_norm,
   adam |-> cfg.learning_rate]

\* learning.DQNLearner(...).
MakeLearner(id, network, environment_spec, cfg, optimizer, reverb_replay) ==
  [id |-> id,
   network |-> network,
   obs_spec |-> environment_spec.observations,
   rng |-> [seed |-> cfg.seed],
   optimizer |-> optimizer,
   discount |-> cfg.discount,
   importance_sampling_exponent |-> cfg.importance_sampling_exponent,
   target_update_period |-> cfg.target_update_period,
   iterator |-> reverb_replay.data_iterator,
   replay_client |-> reverb_replay.client]

\* Variant: the policy closure also captures the learner.
MakeActorCapturesLearner(id, network, cfg, learner, reverb_replay) ==
  [id |-> id,
   policy |-> [captures |-> {NetworkRef(network), ConfigRef,
                             LearnerRef(learner.id)}],
   rng |-> [seed |-> cfg.seed],
   variable_client |-> [client |-> LearnerRef(learner.id), key |-> ""],
   adder |-> reverb_replay.adder]

\* Variant: the actor's adder comes from a second replay group.
MakeActorOwnReplay(id, network, cfg, learner, reverb_replay) ==
  [id |-> id,
   policy |-> [captures |-> {NetworkRef(network), ConfigRef}],
   rng |-> [seed |-> cfg.seed],
   variable_client |-> [client |-> LearnerRef(learner.id), key |-> ""],
   adder |-> Handle(reverb_replay.id + 1, "adder")]

\* actors.FeedForwardActor(policy, rng, variable_client, adder).
MakeActor(id, network, cfg, learner, reverb_replay) ==
  [id |-> id,
   policy |-> [captures |-> {NetworkRef(network), ConfigRef}],
   rng |-> [seed |-> cfg.seed],
   variable_client |-> [client |-> LearnerRef(learner.id), key |-> ""],
   adder |-> reverb_replay.adder]

\* Python's max(a, b): the first argument unless the second is larger.
Max2(a, b) == IF b > a THEN b ELSE a

\* Variant: the threshold ignores min_replay_size.
MinObservationsBatchOnly(cfg) == cfg.batch_size

MinObservations(cfg) == Max2(cfg.batch_size, cfg.min_replay_size)

\* Variant: floor division (//) in place of true division.
TrueDivFloor(p, q) ==
  IF q[1] = 0
    THEN [raised |-> TRUE, value |-> <<0, 1>>]
    ELSE [raised |-> FALSE,
          value |-> <<(p[1] * q[2]) \div (p[2] * q[1]), 1>>]

\* Variant: division by zero yields inf instead of raising.
TrueDivNoRaise(p, q) ==
  IF q[1] = 0
    THEN [raised |-> FALSE, value |-> Inf]
    ELSE [raised |-> FALSE, value |-> Norm(<<p[1] * q[2], p[2] * q[1]>>)]

\* Python's x / y on numbers: ZeroDivisionError when y is zero.
TrueDiv(p, q) ==
  IF q[1] = 0
    THEN [raised |-> TRUE, value |-> <<0, 1>>]
    ELSE [raised |-> FALSE, value |-> Norm(<<p[1] * q[2], p[2] * q[1]>>)]

ObservationsPerStep(cfg) == TrueDiv(Rat(cfg.batch_size), cfg.samples_per_insert)

Made(r, l, a) == [replay |-> r, learner |-> l, actor |-> a]

\* DQNFromConfig.__init__.  rid, lid, aid are the identities of the objects
\* it allocates; replayOk and learnerOk say whether the delegated
\* constructions return or raise.
DQNFromConfigInit(environment_spec, network, cfg, rid, lid, aid, replayOk, learnerOk) ==
  IF ~replayOk THEN [outcome |-> "replay_error", made |-> Made(0, 0, 0)]
  ELSE
    LET reverb_replay == MakeReplay(rid, environment_spec, cfg)
        optimizer == MakeOptimizer(cfg)
    IN
    IF ~learnerOk THEN [outcome |-> "learner_error", made |-> Made(1, 0, 0)]
    ELSE
      LET learner == MakeLearner(lid, network, environment_spec, cfg,
                                 optimizer, reverb_replay)
          actor == MakeActor(aid, network, cfg, learner, reverb_replay)
          min_observations == MinObservations(cfg)
          observations_per_step == ObservationsPerStep(cfg)
      IN
      IF observations_per_step.raised
        THEN [outcome |-> "ZeroDivisionError", made |-> Made(1, 1, 1)]
        ELSE [outcome |-> "ok",
              made |-> Made(1, 1, 1),
              server |-> reverb_replay.server,
              replay |-> reverb_replay,
              learner |-> learner,
              actor |-> actor,
              min_observations |-> min_observations,
              observations_per_step |-> observations_per_step.value]

\* Variant: the constructor writes the threshold back into the record.
ConfigAfterInitClamped(cfg) ==
  [cfg EXCEPT !["min_replay_size"] = MinObservations(cfg)]

\* DQNFromConfig.__init__ reads config and assigns to none of its fields.
ConfigAfterInit(cfg) == cfg

---------------------------------------------------------------------------
(* DQN.__init__: the legacy constructor. *)

LegacyKeywords ==
  {"batch_size", "prefetch_size", "target_update_period", "samples_per_insert",
   "min_replay_size", "max_replay_size", "importance_sampling_exponent",
   "priority_exponent", "n_step", "epsilon", "learning_rate", "discount",
   "seed"}

\* Variant: a legacy default that lags behind the dataclass default.
LegacyDefaultStale ==
  [batch_size |-> 256,
   prefetch_size |-> 4,
   target_update_period |-> 100,
   samples_per_insert |-> <<1, 2>>,
   min_replay_size |-> 1000,
   max_replay_size |-> 1000000,
   importance_sampling_exponent |-> <<1, 5>>,
   priority_exponent |-> <<3, 5>>,
   n_step |-> 1,
   epsilon |-> <<1, 20>>,
   learning_rate |-> <<1, 1000>>,
   discount |-> <<99, 100>>,
   seed |-> 1]

LegacyDefault ==
  [batch_size |-> 256,
   prefetch_size |-> 4,
   target_update_period |-> 100,
   samples_per_insert |-> <<1, 2>>,
   min_replay_size |-> 1000,
   max_replay_size |-> 1000000,
   importance_sampling_exponent |-> <<1, 5>>,
   priority_exponent |-> <<3, 5>>,
   n_step |-> 5,
   epsilon |-> <<1, 20>>,
   learning_rate |-> <<1, 1000>>,
   discount |-> <<99, 100>>,
   seed |-> 1]

\* Binding of the call's keywords to the parameters of DQN.__init__.
LegacyParams(kw) ==
  [f \in LegacyKeywords |-> IF f \in DOMAIN kw THEN kw[f] ELSE LegacyDefault[f]]

\* Variant: seed is not handed on to DQNConfig.
LegacyConfigDropsSeed(kw) ==
  LET p == LegacyParams(kw)
  IN  DQNConfig(
        [batch_size |-> p.batch_size,
         prefetch_size |-> p.prefetch_size,
         target_update_period |-> p.target_update_period,
         samples_per_insert |-> p.samples_per_insert,
         min_replay_size |-> p.min_replay_size,
         max_replay_size |-> p.max_replay_size,
         importance_sampling_exponent |-> p.importance_sampling_exponent,
         priority_exponent |-> p.priority_exponent,
         n_step |-> p.n_step,
         epsilon |-> p.epsilon,
         learning_rate |-> p.learning_rate,
         discount |-> p.discount])

\* config = DQNConfig(batch_size=batch_size, ..., seed=seed).
LegacyConfig(kw) ==
  LET p == LegacyParams(kw)
  IN  DQNConfig(
        [batch_size |-> p.batch_size,
         prefetch_size |-> p.prefetch_size,
         target_update_period |-> p.target_update_period,
         samples_per_insert |-> p.samples_per_insert,
         min_replay_size |-> p.min_replay_size,
         max_replay_size |-> p.max_replay_size,
         importance_sampling_exponent |-> p.importance_sampling_exponent,
         priority_exponent |-> p.priority_exponent,
         n_step |-> p.n_step,
         epsilon |-> p.epsilon,
         learning_rate |-> p.learning_rate,
         discount |-> p.discount,
         seed |-> p.seed])

\* super().__init__(environment_spec=..., network=..., config=config).
LegacyForward(environment_spec, network, kw) ==
  [environment_spec |-> environment_spec,
   network |-> network,
   config |-> LegacyConfig(kw)]

---------------------------------------------------------------------------
(* The policy closure. *)

Actions == 1..NumActions
QValues == {0, 1}
Params == [Actions -> QValues]
Observations == {0, 1}
Keys == 0..(NumKeys - 1)

\* network.apply(params, observation) for the two stand-in networks.
NetworkApply(network, params, observation) ==
  [a \in Actions |->
     IF network = "net_a" THEN params[a]
     ELSE (params[a] + observation * a) % 2]

MaxValue(action_values) ==
  CHOOSE m \in {action_values[a] : a \in Actions} :
    \A a \in Actions : action_values[a] <= m

ArgMax(action_values) ==
  {a \in Actions : action_values[a] = MaxValue(action_values)}

\* rlax.epsilon_greedy(epsilon): probability epsilon spread uniformly over
\* all actions, 1 - epsilon spread uniformly over the maximising actions.
EpsilonGreedyProbs(epsilon, action_values) ==
  LET greedy == ArgMax(action_values)
      uniform == RMul(epsilon, <<1, NumActions>>)
      rest == RMul(RAdd(Rat(1), RMul(Rat(-1), epsilon)),
                   <<1, Cardinality(greedy)>>)
  IN  [a \in Actions |-> IF a \in greedy THEN RAdd(uniform, rest) ELSE uniform]

RECURSIVE Cumulative(_, _)
Cumulative(probs, a) ==
  IF a = 0 THEN Rat(0) ELSE RAdd(Cumulative(probs, a - 1), probs[a])

\* .sample(key, preferences): the categorical draw, as the inverse of the
\* cumulative distribution at the uniform number key / NumKeys.
Categorical(key, probs) ==
  LET u == <<key, NumKeys>>
  IN  CHOOSE a \in Actions :
        /\ RLess(u, Cumulative(probs, a))
        /\ \A b \in 1..(a - 1) : ~RLess(u, Cumulative(probs, b))

\* Variant: the closure uses the default exploration rate, not config's.
PolicyDefaultEpsilon(network, cfg, params, key, observation) ==
  LET action_values == NetworkApply(network, params, observation)
  IN  Categorical(key, EpsilonGreedyProbs(ConfigDefault.epsilon,
                                          action_values))

\* def policy(params, key, observation), closed over network and config.
Policy(network, cfg, params, key, observation) ==
  LET action_values == NetworkApply(network, params, observation)
  IN  Categorical(key, EpsilonGreedyProbs(cfg.epsilon, action_values))

---------------------------------------------------------------------------
(* The state machine: a caller that builds configurations and agents. *)

NoConfig == [f \in {} |-> 0]
NoArgs == [given |-> FALSE]
NoCall == [received |-> FALSE]
NoAgent == [outcome |-> "none", made |-> Made(0, 0, 0)]
NoPolicy == [called |-> FALSE]

Init ==
  /\ config = NoConfig
  /\ config0 = NoConfig
  /\ kwargs = NoKwargs
  /\ args = NoArgs
  /\ via = "none"
  /\ call = NoCall
  /\ agent = NoAgent
  /\ nReplay = 0
  /\ nLearner = 0
  /\ nActor = 0
  /\ nCalls = 0
  /\ nAssign = 0
  /\ lastPolicy = NoPolicy

\* How much of the caller's budget MaxInputs is used.
Used ==
  Cardinality(DOMAIN kwargs) + nAssign + (IF nCalls > 0 THEN nCalls - 1 ELSE 0)

\* config = DQNConfig(**kw), kw drawn from the set K
NewConfig(K) ==
  /\ via = "none"
  /\ \E kw \in K :
       /\ config' = DQNConfig(kw)
       /\ config0' = DQNConfig(kw)
       /\ kwargs' = kw
  /\ via' = "config"
  /\ UNCHANGED <<args, call, agent, nReplay, nLearner, nActor, nCalls,
                 nAssign, lastPolicy>>

\* config.f = v for a field f of F   (the dataclass is not frozen)
AssignField(F) ==
  /\ via = "config"
  /\ Used < MaxInputs
  /\ \E f \in F : \E v \in Values(f) : config' = [config EXCEPT ![f] = v]
  /\ nAssign' = nAssign + 1
  /\ UNCHANGED <<config0, kwargs, args, via, call, agent, nReplay, nLearner,
                 nActor, nCalls, lastPolicy>>

\* The effect of one run of DQNFromConfig.__init__ on the program state.
RunInit(environment_spec, network, cfg, replayOk, learnerOk) ==
  LET r == DQNFromConfigInit(environment_spec, network, cfg, nReplay + 1,
                             nLearner + 1, nActor + 1, replayOk, learnerOk)
  IN  /\ agent' = r
      /\ call' = [received |-> TRUE,
                  environment_spec |-> environment_spec,
                  network |-> network,
                  config |-> cfg,
                  rid |-> nReplay + 1,
                  lid |-> nLearner + 1,
                  aid |-> nActor + 1]
      /\ config' = ConfigAfterInit(cfg)
      /\ nReplay' = nReplay + r.made.replay
      /\ nLearner' = nLearner + r.made.learner
      /\ nActor' = nActor + r.made.actor
      /\ nCalls' = nCalls + 1
      /\ lastPolicy' = NoPolicy

\* DQNFromConfig(environment_spec, network, config)
ConstructFromConfig ==
  /\ via = "config"
  /\ nCalls = 0 \/ Used < MaxInputs
  /\ \E s \in Setups, replayOk \in BOOLEAN, learnerOk \in BOOLEAN :
       /\ args' = [given |-> TRUE, environment_spec |-> s[1],
                   network |-> s[2]]
       /\ RunInit(s[1], s[2], config, replayOk, learnerOk)
  /\ UNCHANGED <<config0, kwargs, via, nAssign>>

\* DQN(environment_spec, network, **kw), kw drawn from the set K
ConstructLegacy(K) ==
  /\ via = "none"
  /\ \E s \in Setups, replayOk \in BOOLEAN, learnerOk \in BOOLEAN :
       \E kw \in K :
         LET e == s[1]
             n == s[2]
             fwd == LegacyForward(e, n, kw)
         IN  /\ config0' = fwd.config
             /\ RunInit(fwd.environment_spec, fwd.network, fwd.config,
                        replayOk, learnerOk)
             /\ args' = [given |-> TRUE, environment_spec |-> e,
                         network |-> n]
             /\ kwargs' = kw
  /\ via' = "legacy"
  /\ UNCHANGED nAssign

\* The actor calls policy(params, key, observation); the closure reads the
\* network it was built with and the config object as it is now.
PolicyCall ==
  /\ agent.outcome = "ok"
  /\ \E params \in Params, key \in Keys, observation \in Observations :
       lastPolicy' =
         [called |-> TRUE,
          epsilon |-> config.epsilon,
          action_values |-> NetworkApply(call.network, params, observation),
          action |-> Policy(call.network, config, params, key, observation)]
  /\ UNCHANGED <<config, config0, kwargs, args, via, call, agent, nReplay,
                 nLearner, nActor, nCalls, nAssign>>

\* The keyword dictionaries the caller passes to DQNConfig and to DQN.
ConfigKwargs == KwargsUpTo(Fields, MaxInputs)
LegacyKwargs == KwargsUpTo(LegacyKeywords, MaxInputs)
EpsilonKwargs == KwargsUpTo({"epsilon"}, 1)

Next ==
  \/ NewConfig(ConfigKwargs)
  \/ AssignField(Fields)
  \/ ConstructFromConfig
  \/ ConstructLegacy(LegacyKwargs)

Spec == Init /\ [][Next]_vars

\* The policy reads only config.epsilon and the network: the specification
\* of the policy draws the other fields at their defaults.
NextPolicy ==
  \/ NewConfig(EpsilonKwargs)
  \/ AssignField({"epsilon"})
  \/ ConstructFromConfig
  \/ ConstructLegacy(EpsilonKwargs)
  \/ PolicyCall

SpecPolicy == Init /\ [][NextPolicy]_vars

---------------------------------------------------------------------------
(* Properties. *)

Built == agent.outcome = "ok"

\* C1: the min_observations handed to the generic agent is never below
\* batch_size, never below min_replay_size, and is one of the two.
MinObservationsIsMax ==
  Built =>
    /\ agent.min_observations >= call.config.batch_size
    /\ agent.min_observations >= call.config.min_replay_size
    /\ agent.min_observations \in
         {call.config.batch_size, call.config.min_replay_size}

\* The example of the specification: batch_size=32, min_replay_size=1000
\* gives 1000.
MinObservationsExample ==
  /\ Built
  /\ call.config.batch_size = 32
  /\ call.config.min_replay_size = 1000
  /\ agent.min_observations = 1000

\* C2: with samples_per_insert non-zero, observations_per_step times
\* samples_per_insert is exactly batch_size (the quotient is not truncated).
ObservationsPerStepIsQuotient ==
  (call.received /\ call.config.samples_per_insert[1] # 0 /\ Built) =>
    LET q == agent.observations_per_step
        r == call.config.samples_per_insert
    IN  /\ q[2] > 0
        /\ q[1] * r[1] = call.config.batch_size * q[2] * r[2]

\* batch_size=1, samples_per_insert=2 gives 1/2, which truncation would lose.
ObservationsPerStepFraction ==
  /\ Built
  /\ call.config.batch_size = 1
  /\ call.config.samples_per_insert = <<2, 1>>
  /\ agent.observations_per_step = <<1, 2>>

\* C3: the record the legacy constructor builds from its keywords is, field
\* for field, DQNConfig of the same keywords, and it is forwarded with the
\* caller's environment_spec and network.
LegacyBuildsSameConfig ==
  via = "legacy" =>
    /\ call.config = DQNConfig(kwargs)
    /\ \A f \in Fields : call.config[f] = DQNConfig(kwargs)[f]
    /\ call.environment_spec = args.environment_spec
    /\ call.network = args.network

\* A legacy call with two keywords supplied and the other eleven omitted.
LegacyCallWithKeywords ==
  /\ via = "legacy"
  /\ Cardinality(DOMAIN kwargs) = 2
  /\ "n_step" \notin DOMAIN kwargs
  /\ Built

\* The keywords that would make the legacy constructor build cfg.
LegacyKeywordsFor(cfg) == [f \in LegacyKeywords |-> cfg[f]]

\* C4 as stated: every configuration handed to the primary constructor is
\* also one the legacy constructor can build.
LegacyReachesEveryConfig ==
  (via = "config" /\ call.received) =>
    LegacyConfig(LegacyKeywordsFor(call.config)) = call.config

\* C4 amended: every DQNConfig field but max_gradient_norm is a legacy
\* keyword; the legacy constructor can build every configuration of the
\* primary one up to max_gradient_norm, which it always leaves at inf.
LegacyReachesAllButGradientNorm ==
  /\ Fields \ LegacyKeywords = {"max_gradient_norm"}
  /\ (via = "config" /\ call.received) =>
       LET lc == LegacyConfig(LegacyKeywordsFor(call.config))
       IN  /\ \A f \in Fields \ {"max_gradient_norm"} : lc[f] = call.config[f]
           /\ lc.max_gradient_norm = Inf
  /\ via = "legacy" => call.config.max_gradient_norm = Inf

\* A primary-constructor configuration with a finite gradient clip and a
\* seed other than the default.
ConfigWithGradientNorm ==
  /\ via = "config"
  /\ call.received
  /\ call.config.max_gradient_norm # Inf
  /\ call.config.seed # ConfigDefault.seed

\* C5: with config.epsilon = 0 the policy returns an action whose value is
\* the maximum over all actions.
GreedyWhenEpsilonZero ==
  (lastPolicy.called /\ lastPolicy.epsilon = <<0, 1>>) =>
    \A a \in Actions :
      lastPolicy.action_values[a] <= lastPolicy.action_values[lastPolicy.action]

\* epsilon = 0, the action values differ, and the maximum is not at the
\* first action.
GreedyPicksLaterAction ==
  /\ lastPolicy.called
  /\ lastPolicy.epsilon = <<0, 1>>
  /\ lastPolicy.action # 1
  /\ lastPolicy.action_values[1] < lastPolicy.action_values[lastPolicy.action]

\* C6: a construction makes one replay group, one learner and one actor, and
\* the learner's iterator and client, the actor's adder and the retained
\* server are handles of that one group, the one this call created.
OneReplayShared ==
  Built =>
    /\ agent.made = Made(1, 1, 1)
    /\ agent.replay.id = call.rid
    /\ nReplay = call.rid
    /\ agent.learner.id = nLearner
    /\ agent.actor.id = nActor
    /\ agent.server = Handle(call.rid, "server")
    /\ agent.learner.iterator = Handle(call.rid, "data_iterator")
    /\ agent.learner.replay_client = Handle(call.rid, "client")
    /\ agent.actor.adder = Handle(call.rid, "adder")

\* A second agent built from the same record: its replay group is a new one.
SecondAgentBuilt ==
  /\ Built
  /\ nCalls = 2
  /\ nReplay = 2
  /\ agent.actor.adder.id = 2

\* C7 as stated: a constructor call fails only inside the replay or the
\* learner construction.
OnlyDelegatedFailures ==
  agent.outcome \in {"none", "ok", "replay_error", "learner_error"}

\* C7 amended: when replay and learner construction succeed, the
\* constructor's own code raises exactly when samples_per_insert is zero
\* (ZeroDivisionError), and otherwise builds the agent.
OwnCodeRaisesOnlyOnZeroRatio ==
  (call.received /\ agent.outcome \notin {"replay_error", "learner_error"}) =>
    IF call.config.samples_per_insert[1] = 0
      THEN agent.outcome = "ZeroDivisionError"
      ELSE agent.outcome = "ok"

\* samples_per_insert = 0 with a valid batch size: the division raised
\* after replay, learner and actor had been made.
ZeroRatioRaised ==
  /\ agent.outcome = "ZeroDivisionError"
  /\ call.config.samples_per_insert = <<0, 1>>
  /\ call.config.batch_size = 256
  /\ agent.made = Made(1, 1, 1)

\* C8 as stated: every field of a configuration record holds the value it
\* was constructed with.
ConfigNeverChanges ==
  via = "config" => config = config0

\* C8 amended: no constructor call changes a field of the record it
\* receives (caller assignments do: the dataclass is not frozen).
ConstructorsKeepConfig ==
  [][nCalls' # nCalls =>
       /\ config' = call'.config
       /\ via = "config" => config' = config]_vars

\* A record the caller assigned to and then passed to the constructor: it
\* differs from its construction values, and equals what the call received.
AssignedConfigConstructed ==
  /\ via = "config"
  /\ nAssign > 0
  /\ call.received
  /\ config # config0
  /\ config = call.config

\* The references to objects that each argument of the actor holds.
ActorRefs(actor) ==
  [policy |-> actor.policy.captures,
   rng |-> {},
   variable_client |-> {actor.variable_client.client},
   adder |-> {actor.adder}]

\* C9: the only reference to the learner that the actor holds is the
\* variable client's; policy, rng and adder hold none.
ActorReachesLearnerOnlyByClient ==
  Built =>
    LET refs == ActorRefs(agent.actor)
    IN  /\ agent.actor.variable_client =
             [client |-> LearnerRef(agent.learner.id), key |-> ""]
        /\ \A slot \in DOMAIN refs :
             (\E r \in refs[slot] : r.kind = "learner") =>
               slot = "variable_client"

\* The second learner and an actor whose variable client points at it.
ActorClientOfSecondLearner ==
  /\ Built
  /\ agent.learner.id = 2
  /\ agent.actor.variable_client.client = LearnerRef(2)

=============================================================================
